---- MODULE Spec2Model ----
(***************************************************************************)
(* Task management API: the task store behind MongoDBTaskRepository, the   *)
(* TaskFactory / TaskService / use-case layer on top of it, the HTTP       *)
(* route table with its authentication middleware, and the reconnect loop  *)
(* of MongoPersistenceConnection.                                          *)
(*                                                                         *)
(* Strings that the code trims or tests for emptiness are sequences of     *)
(* one-character strings.  Dates are milliseconds on a small clock.        *)
(***************************************************************************)
EXTENDS Integers, Sequences, FiniteSets, TLC

\* ------------------------------------------------------------------ bounds
MaxTasks == 2      \* ObjectIds the store hands out
MaxTime == 1       \* last millisecond of the clock
MaxPending == 3    \* retry timers and connect() calls pending at a time
MaxListeners == 3  \* successful connect() calls of one process
MaxElapsed == 1
MaxRandom == 1
MaxCalls == 7    \* milliseconds that may pass between a caller's clock read and the factory's

\* --------------------------------------------------------------- variables
VARIABLES
  store,     \* tasks collection: ObjectId number -> document
  nextOid,   \* next ObjectId the driver generates
  now,       \* Date.now()
  pc,        \* per request: where an in-flight updateTask / mark-complete stands
  local,     \* per request: the locals the pending continuation holds
  last,      \* outcome of the operation that completed last
  call,      \* a TaskFactory.createTask call: arguments, clock at the caller, result
  req,       \* an HTTP request on its way through the router
  conn,      \* MongoPersistenceConnection and the process it runs in
  entity,    \* a Task object a caller holds
  users      \* users collection: user id -> document

vars == <<store, nextOid, now, pc, local, last, call, req, conn, entity, users>>

\* ------------------------------------------------------------------ values
Null == [null |-> TRUE]
Undefined == <<"undefined">>
InvalidDate == -1

TODO == "TODO"
IN_PROGRESS == "IN_PROGRESS"
DONE == "DONE"
TaskStatus == {TODO, IN_PROGRESS, DONE}

LOW == "LOW"
MEDIUM == "MEDIUM"
HIGH == "HIGH"
TaskPriority == {LOW, MEDIUM, HIGH}

\* Task ids are strings of three shapes: '' , a 24-hex ObjectId string (n is
\* the ObjectId), the output of generateTaskId (base-36 time n, random r),
\* or some other text that is no ObjectId.
EmptyId == [k |-> "empty", n |-> 0, r |-> 0]
Oid(n) == [k |-> "oid", n |-> n, r |-> 0]
GenId(t, r) == [k |-> "gen", n |-> t, r |-> r]
BadId == [k |-> "bad", n |-> 0, r |-> 0]

Category(name, description) == [name |-> name, description |-> description]

Task(id, title, description, status, priority, dueDate, createdByUserId, category, createdAt, updatedAt) ==
  [id |-> id, title |-> title, description |-> description, status |-> status,
   priority |-> priority, dueDate |-> dueDate, createdByUserId |-> createdByUserId,
   category |-> category, createdAt |-> createdAt, updatedAt |-> updatedAt]

\* ----------------------------------------------------------------- strings
RECURSIVE TrimStart(_)
TrimStart(s) == IF s = <<>> THEN s
                ELSE IF Head(s) = " " THEN TrimStart(Tail(s)) ELSE s

RECURSIVE TrimEnd(_)
TrimEnd(s) == IF s = <<>> THEN s
              ELSE IF s[Len(s)] = " " THEN TrimEnd(SubSeq(s, 1, Len(s) - 1)) ELSE s

\* a trim of the leading white space only
Trim_StartOnly(s) == TrimStart(s)

Trim(s) == TrimEnd(TrimStart(s))

\* !s || s.trim().length === 0
IsBlank(s) == (s = <<>>) \/ (Len(Trim(s)) = 0)

\* -------------------------------------------------------------- TaskFactory
\* validateTaskInput without its comparison of the due date with the clock
validateTaskInput_NoPastCheck(createdByUserId, title, description, dueDate, t) ==
  IF IsBlank(title) THEN "Task title cannot be empty"
  ELSE IF IsBlank(description) THEN "Task description cannot be empty"
  ELSE IF dueDate = InvalidDate THEN "Invalid due date"
  ELSE IF IsBlank(createdByUserId) THEN "User ID cannot be empty"
  ELSE ""

\* validateTaskInput: the message of the error thrown, "" when it returns.
\* t is what new Date() yields at the due-date comparison.
validateTaskInput(createdByUserId, title, description, dueDate, t) ==
  IF IsBlank(title) THEN "Task title cannot be empty"
  ELSE IF IsBlank(description) THEN "Task description cannot be empty"
  ELSE IF dueDate = InvalidDate THEN "Invalid due date"
  ELSE IF dueDate < t THEN "Due date cannot be in the past"
  ELSE IF IsBlank(createdByUserId) THEN "User ID cannot be empty"
  ELSE ""

\* Date.now().toString(36) + Math.random().toString(36).substr(2)
generateTaskId(t, r) == GenId(t, r)

\* TaskFactory.createTask: [err, task]; priority Undefined is the omitted argument.
FactoryCreateTask(title, description, dueDate, createdByUserId, category, priority, t, r) ==
  LET err == validateTaskInput(createdByUserId, title, description, dueDate, t)
  IN IF err # "" THEN [err |-> err, task |-> Null]
     ELSE [err |-> "",
           task |-> Task(generateTaskId(t, r), Trim(title), Trim(description), TODO,
                         IF priority = "undefined" THEN MEDIUM ELSE priority,
                         dueDate, createdByUserId, category, t, t)]

\* --------------------------------------------------- MongoDBTaskRepository
\* mapToDocument: the plain object handed to Mongoose (no _id, no createdAt).
mapToDocument(task, t) ==
  [title |-> task.title, description |-> task.description, status |-> task.status,
   priority |-> task.priority, dueDate |-> task.dueDate,
   createdByUserId |-> task.createdByUserId,
   category |-> [name |-> task.category.name, description |-> task.category.description],
   updatedAt |-> t]

\* mapToTask: a stored document (key n) as a Task entity.
mapToTask(n, doc) ==
  Task(Oid(n), doc.title, doc.description, doc.status, doc.priority, doc.dueDate,
       doc.createdByUserId, Category(doc.category.name, doc.category.description),
       doc.createdAt, doc.updatedAt)

\* TaskSchema's validators (required paths, enums) on the paths of data.
SchemaValid(data) ==
  /\ data.title # <<>>
  /\ data.description # <<>>
  /\ data.dueDate # InvalidDate
  /\ data.createdByUserId # <<>>
  /\ data.category.name # <<>>
  /\ data.status \in TaskStatus
  /\ data.priority \in TaskPriority

\* new TaskModel(taskData): createdAt takes the schema default Date.now.
NewDocument(data, t) ==
  [title |-> data.title, description |-> data.description, status |-> data.status,
   priority |-> data.priority, dueDate |-> data.dueDate,
   createdByUserId |-> data.createdByUserId, category |-> data.category,
   createdAt |-> t, updatedAt |-> data.updatedAt]

\* a $set that leaves the stored status alone
SetFields_NoStatus(doc, data) ==
  [f \in DOMAIN doc |-> IF f \in DOMAIN data /\ f # "status" THEN data[f] ELSE doc[f]]

\* { $set: taskData } on a stored document: the paths of data replace the
\* document's, every other path stays.
SetFields(doc, data) ==
  [f \in DOMAIN doc |-> IF f \in DOMAIN data THEN data[f] ELSE doc[f]]

\* What new mongoose.Types.ObjectId(id) can do with a string that is not 24
\* hex characters: throw, or (12 characters, older drivers) take it as the
\* bytes of an ObjectId no document has.
ObjectIdFailures == {"BSONError", "Task not found"}

\* TaskModel.findById(id): Mongoose casts the string; a string that is no
\* ObjectId rejects with a CastError.
RepoFindById(st, id) ==
  IF id.k # "oid" THEN [err |-> "CastError", task |-> Null]
  ELSE IF id.n \in DOMAIN st THEN [err |-> "", task |-> mapToTask(id.n, st[id.n])]
  ELSE [err |-> "", task |-> Null]

\* TaskModel.find({ createdByUserId: userId })
findByUser(st, userId) ==
  {mapToTask(n, st[n]) : n \in {m \in DOMAIN st : st[m].createdByUserId = userId}}

\* a find that matches the whole category object
findByCategory_WholeCategory(st, category) ==
  {mapToTask(n, st[n]) : n \in {m \in DOMAIN st : st[m].category = category}}

\* TaskModel.find({ 'category.name': category.getName() })
findByCategory(st, category) ==
  {mapToTask(n, st[n]) : n \in {m \in DOMAIN st : st[m].category.name = category.name}}

\* a find that leaves the user out of the filter
findByCategoryAndUser_NoUser(st, userId, category) ==
  {mapToTask(n, st[n]) : n \in {m \in DOMAIN st : st[m].category.name = category.name}}

\* TaskModel.find({ createdByUserId: userId, 'category.name': category.getName() })
findByCategoryAndUser(st, userId, category) ==
  {mapToTask(n, st[n]) :
     n \in {m \in DOMAIN st : /\ st[m].createdByUserId = userId
                              /\ st[m].category.name = category.name}}

\* findByIdAndUpdate with { upsert: true }
FindByIdAndUpdate_Upsert(st, n, data) ==
  IF ~SchemaValid(data) THEN [err |-> "ValidationError", store |-> st, task |-> Null]
  ELSE LET doc == IF n \in DOMAIN st THEN SetFields(st[n], data) ELSE NewDocument(data, 0)
       IN [err |-> "", store |-> [m \in DOMAIN st \cup {n} |-> IF m = n THEN doc ELSE st[m]],
           task |-> mapToTask(n, doc)]

\* The update branch of save, once the id is an ObjectId: findByIdAndUpdate
\* with { new: true, runValidators: true } and no upsert.
\* [err, store, task]
FindByIdAndUpdate(st, n, data) ==
  IF ~SchemaValid(data) THEN [err |-> "ValidationError", store |-> st, task |-> Null]
  ELSE IF n \notin DOMAIN st THEN [err |-> "Task not found", store |-> st, task |-> Null]
  ELSE LET doc == SetFields(st[n], data)
       IN [err |-> "", store |-> [st EXCEPT ![n] = doc], task |-> mapToTask(n, doc)]

\* The insert branch of save: new TaskModel(taskData).save() under a fresh _id.
InsertDocument(st, n, data, t) ==
  IF ~SchemaValid(data) THEN [err |-> "ValidationError", store |-> st, task |-> Null]
  ELSE LET doc == NewDocument(data, t)
       IN [err |-> "", store |-> [m \in DOMAIN st \cup {n} |-> IF m = n THEN doc ELSE st[m]],
           task |-> mapToTask(n, doc)]

\* MongoDBTaskRepository.save(task) with taskData = mapToDocument(task, ..):
\* the set of outcomes [err, store, task, inserted].
RepoSave(st, id, data, n, t) ==
  IF id # EmptyId
  THEN IF id.k = "oid"
       THEN {[inserted |-> FALSE] @@ FindByIdAndUpdate(st, id.n, data)}
       ELSE {[err |-> e, store |-> st, task |-> Null, inserted |-> FALSE] : e \in ObjectIdFailures}
  ELSE {[inserted |-> TRUE] @@ InsertDocument(st, n, data, t)}

\* MongoDBTaskRepository.delete: [err, store]
RepoDelete(st, id) ==
  IF id.k # "oid" THEN {[err |-> e, store |-> st] : e \in ObjectIdFailures}
  ELSE IF id.n \notin DOMAIN st THEN {[err |-> "Task not found", store |-> st]}
  ELSE {[err |-> "", store |-> [m \in DOMAIN st \ {id.n} |-> st[m]]]}

\* ------------------------------------------------------------- TaskService
\* The setter calls of updateTask on the task it found: a field is applied
\* when updates carries a truthy value for it ('' is not).
Truthy(updates, f) ==
  /\ f \in DOMAIN updates
  /\ f \in {"setTitle", "setDescription"} => updates[f] # <<>>

\* setters that put the status back to TODO when updates carries none
ApplyUpdates_DefaultStatus(task, updates, t) ==
  [task EXCEPT !.title = IF Truthy(updates, "setTitle") THEN updates.setTitle ELSE @,
               !.status = IF Truthy(updates, "setStatus") THEN updates.setStatus ELSE TODO,
               !.updatedAt = t]

ApplyUpdates(task, updates, t) ==
  LET t1 == IF Truthy(updates, "setTitle")
            THEN [task EXCEPT !.title = updates.setTitle, !.updatedAt = t] ELSE task
      t2 == IF Truthy(updates, "setDescription")
            THEN [t1 EXCEPT !.description = updates.setDescription, !.updatedAt = t] ELSE t1
      t3 == IF Truthy(updates, "setStatus")
            THEN [t2 EXCEPT !.status = updates.setStatus, !.updatedAt = t] ELSE t2
      t4 == IF Truthy(updates, "setPriority")
            THEN [t3 EXCEPT !.priority = updates.setPriority, !.updatedAt = t] ELSE t3
      t5 == IF Truthy(updates, "setCategory")
            THEN [t4 EXCEPT !.category = updates.setCategory, !.updatedAt = t] ELSE t4
      t6 == IF Truthy(updates, "setDueDate")
            THEN [t5 EXCEPT !.dueDate = updates.setDueDate, !.updatedAt = t] ELSE t5
  IN t6

\* the updates object without the setStatus(DONE) before it
CompletedUpdates_NoSetStatus(task) ==
  [setTitle |-> task.title, setDescription |-> task.description, setStatus |-> task.status,
   setPriority |-> task.priority, setCategory |-> task.category,
   setDueDate |-> task.dueDate]

\* an updates object that puts a task already DONE back to TODO
CompletedUpdates_Toggle(task) ==
  [setTitle |-> task.title, setDescription |-> task.description,
   setStatus |-> IF task.status = DONE THEN TODO ELSE DONE,
   setPriority |-> task.priority, setCategory |-> task.category,
   setDueDate |-> task.dueDate]

\* The updates object MarkTaskAsCompletedUseCase builds from the task it read,
\* after task.setStatus(DONE).
CompletedUpdates(task) ==
  [setTitle |-> task.title, setDescription |-> task.description, setStatus |-> DONE,
   setPriority |-> task.priority, setCategory |-> task.category,
   setDueDate |-> task.dueDate]

\* updateTask without its not-found check: the first setter fails on null
UpdateTaskFind_NoNullCheck(st, id, updates, t) ==
  LET found == RepoFindById(st, id)
  IN IF found.err # "" THEN [err |-> found.err, task |-> Null, calls |-> <<"findById">>]
     ELSE IF found.task = Null
          THEN [err |-> "TypeError", task |-> Null, calls |-> <<"findById">>]
          ELSE [err |-> "", task |-> ApplyUpdates(found.task, updates, t),
                calls |-> <<"findById">>]

\* updateTask up to its save call: findById, the not-found check, the setters.
\* [err, task, calls]
UpdateTaskFind(st, id, updates, t) ==
  LET found == RepoFindById(st, id)
  IN IF found.err # "" THEN [err |-> found.err, task |-> Null, calls |-> <<"findById">>]
     ELSE IF found.task = Null
          THEN [err |-> "Task not found", task |-> Null, calls |-> <<"findById">>]
          ELSE [err |-> "", task |-> ApplyUpdates(found.task, updates, t),
                calls |-> <<"findById">>]

\* TaskService.updateTask run to completion with nothing in between:
\* the set of outcomes [err, store, task, calls].
ServiceUpdateTask(st, id, updates, n, t) ==
  LET f == UpdateTaskFind(st, id, updates, t)
  IN IF f.err # "" THEN {[err |-> f.err, store |-> st, task |-> Null, calls |-> f.calls]}
     ELSE {[err |-> o.err, store |-> o.store, task |-> o.task,
            calls |-> Append(f.calls, "save")] :
             o \in RepoSave(st, f.task.id, mapToDocument(f.task, t), n, t)}

\* MarkTaskAsCompletedUseCase.execute run to completion with nothing in
\* between: getTaskById, the not-found check, setStatus(DONE), updateTask.
\* The set of outcomes [err, store, task, calls, read].
MarkTaskAsCompleted(st, id, n, t) ==
  LET found == RepoFindById(st, id)
  IN IF found.err # ""
     THEN {[err |-> found.err, store |-> st, task |-> Null, calls |-> <<"findById">>,
            read |-> Null]}
     ELSE IF found.task = Null
          THEN {[err |-> "Task not found", store |-> st, task |-> Null,
                 calls |-> <<"findById">>, read |-> Null]}
          ELSE {[err |-> o.err, store |-> o.store, task |-> o.task,
                 calls |-> <<"findById">> \o o.calls, read |-> found.task] :
                  o \in ServiceUpdateTask(st, id, CompletedUpdates(found.task), n, t)}

\* ------------------------------------------------------------------ inputs
UserU == <<"u">>
UserV == <<"v">>
Work == Category(<<"w">>, Undefined)
Home == Category(<<"h">>, <<"d">>)
\* categories as a route parameter builds them: new Category(name)
QueryCategories == {Category(<<"w">>, Undefined), Category(<<"h">>, Undefined)}
QueryUsers == {UserU, UserV}

\* Task objects with id '' handed to MongoDBTaskRepository.save
NewTask(title, createdByUserId, category) ==
  Task(EmptyId, title, <<"x">>, TODO, LOW, 1, createdByUserId, category, 0, 0)

NewTasks == {NewTask(<<"a">>, UserU, Work), NewTask(<<>>, UserU, Work)}

\* arguments of createTask
CreateInputs ==
  [title : {<<>>, <<" ", "a">>}, description : {<<"x">>}, dueDate : 0 .. MaxTime,
   createdByUserId : {UserU}, category : {Work}, priority : {"undefined"}]

\* updates objects of updateTask
UpdateInputs ==
  {[setTitle |-> <<"b">>, setStatus |-> IN_PROGRESS],
   [setTitle |-> <<>>]}

\* the inputs of the listing requests
QueryNewTasks ==
  {NewTask(<<"a">>, UserU, Work), NewTask(<<"a">>, UserV, Work),
   NewTask(<<"a">>, UserU, Home)}
QueryUpdateInputs == {[setCategory |-> Home]}

\* the inputs of the overlapping requests
AsyncNewTasks == {NewTask(<<"a">>, UserU, Work)}
AsyncUpdateInputs == {[setStatus |-> IN_PROGRESS]}
AsyncTaskIds == {Oid(n) : n \in 1 .. MaxTasks}

TaskIds == {Oid(n) : n \in 1 .. MaxTasks} \cup {BadId}

NoLast == [op |-> "none", arg |-> Null, err |-> "", task |-> Null, list |-> {}, calls |-> <<>>]
NoLocal == [op |-> "none", id |-> EmptyId, data |-> Null, updates |-> Null, orig |-> Null, calls |-> <<>>]
Procs == {"r1", "r2"}
NoCall == [phase |-> "none"]
NoRequest == [stage |-> "none"]
NoConn == [env |-> "none"]
NoEntity == Null
NoUsers == [u \in {} |-> Null]

\* ------------------------------------------- sequential requests (Spec)
Init ==
  /\ store = [n \in {} |-> Null]
  /\ nextOid = 1
  /\ now = 0
  /\ pc = [p \in Procs |-> "idle"]
  /\ local = [p \in Procs |-> NoLocal]
  /\ last = NoLast
  /\ call = NoCall
  /\ req = NoRequest
  /\ conn = NoConn
  /\ entity = NoEntity
  /\ users = NoUsers

\* the clock advances
Tick ==
  /\ now < MaxTime
  /\ now' = now + 1
  /\ UNCHANGED <<store, nextOid, pc, local, last, call, req, conn, entity, users>>

\* TaskService.createTask: the factory, then repository.save of what it built.
CreateTask ==
  \E inp \in CreateInputs :
    LET t == now
        f == FactoryCreateTask(inp.title, inp.description, inp.dueDate,
                               inp.createdByUserId, inp.category, inp.priority, t, 0)
        arg == [input |-> inp, at |-> t]
    IN /\ IF f.err # ""
          THEN /\ last' = [op |-> "createTask", arg |-> arg, err |-> f.err, task |-> Null,
                           list |-> {}, calls |-> <<>>]
               /\ UNCHANGED <<store, nextOid>>
          ELSE \E o \in RepoSave(store, f.task.id, mapToDocument(f.task, t), nextOid, t) :
                 /\ o.inserted => nextOid <= MaxTasks
                 /\ store' = o.store
                 /\ nextOid' = IF o.inserted /\ o.err = "" THEN nextOid + 1 ELSE nextOid
                 /\ last' = [op |-> "createTask", arg |-> arg, err |-> o.err,
                             task |-> o.task, list |-> {}, calls |-> <<"save">>]
       /\ UNCHANGED <<now, pc, local, call, req, conn, entity, users>>

\* MongoDBTaskRepository.save of a task whose id is ''.
SaveNewTaskOf(tasks) ==
  \E task \in tasks :
    \E o \in RepoSave(store, task.id, mapToDocument(task, now), nextOid, now) :
      /\ nextOid <= MaxTasks
      /\ store' = o.store
      /\ nextOid' = IF o.inserted /\ o.err = "" THEN nextOid + 1 ELSE nextOid
      /\ last' = [op |-> "save", arg |-> [task |-> task], err |-> o.err, task |-> o.task,
                  list |-> {}, calls |-> <<"save">>]
      /\ UNCHANGED <<now, pc, local, call, req, conn, entity, users>>

SaveNewTask == SaveNewTaskOf(NewTasks)

\* TaskService.updateTask, no other request in between.
UpdateTaskOf(inputs) ==
  \E id \in TaskIds, updates \in inputs :
    \E o \in ServiceUpdateTask(store, id, updates, nextOid, now) :
      /\ store' = o.store
      /\ last' = [op |-> "updateTask", arg |-> [id |-> id, updates |-> updates],
                  err |-> o.err, task |-> o.task, list |-> {}, calls |-> o.calls]
      /\ UNCHANGED <<nextOid, now, pc, local, call, req, conn, entity, users>>

UpdateTask == UpdateTaskOf(UpdateInputs)

\* MarkTaskAsCompletedUseCase.execute, no other request in between.
MarkCompleted ==
  \E id \in TaskIds :
    \E o \in MarkTaskAsCompleted(store, id, nextOid, now) :
      /\ store' = o.store
      /\ last' = [op |-> "markTaskAsCompleted", arg |-> [id |-> id, read |-> o.read],
                  err |-> o.err, task |-> o.task, list |-> {}, calls |-> o.calls]
      /\ UNCHANGED <<nextOid, now, pc, local, call, req, conn, entity, users>>

\* TaskService.deleteTask
DeleteTask ==
  \E id \in TaskIds :
    \E o \in RepoDelete(store, id) :
      /\ store' = o.store
      /\ last' = [op |-> "deleteTask", arg |-> [id |-> id], err |-> o.err, task |-> Null,
                  list |-> {}, calls |-> <<"delete">>]
      /\ UNCHANGED <<nextOid, now, pc, local, call, req, conn, entity, users>>

\* TaskService.getTaskById
GetTaskById ==
  \E id \in TaskIds :
    LET f == RepoFindById(store, id)
    IN /\ last' = [op |-> "getTaskById", arg |-> [id |-> id], err |-> f.err,
                   task |-> f.task, list |-> {}, calls |-> <<"findById">>]
       /\ UNCHANGED <<store, nextOid, now, pc, local, call, req, conn, entity, users>>

\* TaskService.getTasksByUser (list-mine)
GetTasksByUser ==
  \E u \in QueryUsers :
    /\ last' = [op |-> "getTasksByUser", arg |-> [userId |-> u], err |-> "", task |-> Null,
                list |-> findByUser(store, u), calls |-> <<"findByUser">>]
    /\ UNCHANGED <<store, nextOid, now, pc, local, call, req, conn, entity, users>>

\* TaskService.getTasksByCategory
GetTasksByCategory ==
  \E c \in QueryCategories :
    /\ last' = [op |-> "getTasksByCategory", arg |-> [category |-> c], err |-> "",
                task |-> Null, list |-> findByCategory(store, c),
                calls |-> <<"findByCategory">>]
    /\ UNCHANGED <<store, nextOid, now, pc, local, call, req, conn, entity, users>>

\* TaskService.getTasksByUserAndCategory (list-mine-by-category)
GetTasksByUserAndCategory ==
  \E u \in QueryUsers, c \in QueryCategories :
    /\ last' = [op |-> "getTasksByUserAndCategory", arg |-> [userId |-> u, category |-> c],
                err |-> "", task |-> Null, list |-> findByCategoryAndUser(store, u, c),
                calls |-> <<"findByCategoryAndUser">>]
    /\ UNCHANGED <<store, nextOid, now, pc, local, call, req, conn, entity, users>>

Next ==
  \/ Tick
  \/ CreateTask
  \/ SaveNewTask
  \/ UpdateTask
  \/ MarkCompleted
  \/ DeleteTask
  \/ GetTaskById

Spec == Init /\ [][Next]_vars

\* ------------------------------------------- listing requests (SpecQuery)
QuerySaveNewTask == SaveNewTaskOf(QueryNewTasks)

QueryUpdateTask == UpdateTaskOf(QueryUpdateInputs)

NextQuery ==
  \/ QuerySaveNewTask
  \/ QueryUpdateTask
  \/ DeleteTask
  \/ GetTasksByUser
  \/ GetTasksByCategory
  \/ GetTasksByUserAndCategory

SpecQuery == Init /\ [][NextQuery]_vars

\* ----------------------------------- overlapping requests (SpecAsync)
\* An updateTask or mark-complete request is suspended at each await; the
\* store executes the reads and writes of different requests in any order.

\* updateTask called: its findById runs; the continuation applies the setters
\* and issues save.
UpdateFindStep(p) ==
  \E id \in AsyncTaskIds, updates \in AsyncUpdateInputs :
    LET f == UpdateTaskFind(store, id, updates, now)
    IN /\ pc[p] = "idle"
       /\ IF f.err # ""
          THEN /\ last' = [op |-> "updateTask", arg |-> [id |-> id, updates |-> updates],
                           err |-> f.err, task |-> Null, list |-> {}, calls |-> f.calls]
               /\ UNCHANGED <<pc, local>>
          ELSE /\ pc' = [pc EXCEPT ![p] = "save"]
               /\ local' = [local EXCEPT ![p] =
                              [op |-> "updateTask", id |-> f.task.id,
                               data |-> mapToDocument(f.task, now), updates |-> updates,
                               orig |-> Null, calls |-> f.calls]]
               /\ UNCHANGED last
       /\ UNCHANGED <<store, nextOid, now, call, req, conn, entity, users>>

\* mark-complete called: the use case's getTaskById runs; the continuation
\* sets DONE on what it read and calls updateTask.
MarkReadStep(p) ==
  \E id \in AsyncTaskIds :
    LET found == RepoFindById(store, id)
    IN /\ pc[p] = "idle"
       /\ IF found.err # "" \/ found.task = Null
          THEN /\ last' = [op |-> "markTaskAsCompleted", arg |-> [id |-> id, read |-> Null],
                           err |-> IF found.err # "" THEN found.err ELSE "Task not found",
                           task |-> Null, list |-> {}, calls |-> <<"findById">>]
               /\ UNCHANGED <<pc, local>>
          ELSE /\ pc' = [pc EXCEPT ![p] = "find"]
               /\ local' = [local EXCEPT ![p] =
                              [op |-> "markTaskAsCompleted", id |-> id, data |-> Null,
                               updates |-> CompletedUpdates(found.task),
                               orig |-> found.task, calls |-> <<"findById">>]]
               /\ UNCHANGED last
       /\ UNCHANGED <<store, nextOid, now, call, req, conn, entity, users>>

\* the findById of the updateTask that mark-complete called
MarkFindStep(p) ==
  /\ pc[p] = "find"
  /\ LET f == UpdateTaskFind(store, local[p].id, local[p].updates, now)
     IN
     /\ IF f.err # ""
        THEN /\ last' = [op |-> local[p].op, arg |-> [id |-> local[p].id, read |-> local[p].orig],
                         err |-> f.err, task |-> Null, list |-> {},
                         calls |-> local[p].calls \o f.calls]
             /\ pc' = [pc EXCEPT ![p] = "idle"]
             /\ local' = [local EXCEPT ![p] = NoLocal]
        ELSE /\ pc' = [pc EXCEPT ![p] = "save"]
             /\ local' = [local EXCEPT ![p].data = mapToDocument(f.task, now),
                                       ![p].calls = local[p].calls \o f.calls]
             /\ UNCHANGED last
     /\ UNCHANGED <<store, nextOid, now, call, req, conn, entity, users>>

\* the save a pending updateTask issued runs on the store
SaveStep(p) ==
  /\ pc[p] = "save"
  /\ \E o \in RepoSave(store, local[p].id, local[p].data, nextOid, now) :
    /\ store' = o.store
    /\ last' = [op |-> local[p].op,
                arg |-> IF local[p].op = "updateTask"
                        THEN [id |-> local[p].id, updates |-> local[p].updates]
                        ELSE [id |-> local[p].id, read |-> local[p].orig],
                err |-> o.err, task |-> o.task, list |-> {},
                calls |-> Append(local[p].calls, "save")]
    /\ pc' = [pc EXCEPT ![p] = "idle"]
    /\ local' = [local EXCEPT ![p] = NoLocal]
    /\ UNCHANGED <<nextOid, now, call, req, conn, entity, users>>

AsyncSaveNewTask == SaveNewTaskOf(AsyncNewTasks)

NextAsync ==
  \/ AsyncSaveNewTask
  \/ DeleteTask
  \/ GetTaskById
  \/ \E p \in Procs : UpdateFindStep(p)
  \/ \E p \in Procs : MarkReadStep(p)
  \/ \E p \in Procs : MarkFindStep(p)
  \/ \E p \in Procs : SaveStep(p)

SpecAsync == Init /\ [][NextAsync]_vars

\* ------------------------------------- TaskFactory calls (SpecFactory)
\* A caller evaluates its arguments, new Date() among them, and calls
\* TaskFactory.createTask; validateTaskInput reads the clock again.
storeVars == <<store, nextOid, pc, local, last>>

FactoryInputs ==
  [title : {<<>>, <<" ">>, <<"a">>, <<" ", "a", " ">>},
   description : {<<>>, <<"x">>},
   dueDate : {InvalidDate} \cup (0 .. MaxTime + MaxElapsed),
   createdByUserId : {<<>>, <<" ">>, UserU},
   category : {Work},
   priority : {"undefined", HIGH}]

\* what Math.random() yields in generateTaskId
Randoms == 0 .. MaxRandom

\* the id of the task the latest successful call returned, Null when none has
PreviousId ==
  IF call.phase = "none" THEN Null
  ELSE IF call.result.err = "" THEN call.result.task.id
  ELSE call.prev

InitFactory ==
  /\ store = [n \in {} |-> Null]
  /\ nextOid = 1
  /\ now \in 0 .. MaxTime
  /\ pc = [p \in Procs |-> "idle"]
  /\ local = [p \in Procs |-> NoLocal]
  /\ last = NoLast
  /\ call = NoCall
  /\ req = NoRequest
  /\ conn = NoConn
  /\ entity = NoEntity
  /\ users = NoUsers

\* the caller has its arguments: at is the clock it could read for them
FactoryCall ==
  \E inp \in FactoryInputs :
    /\ call.phase \in {"none", "done"}
    /\ now <= MaxTime
    /\ call' = [phase |-> "called", input |-> inp, at |-> now, result |-> Null,
                prev |-> PreviousId]
    /\ UNCHANGED <<storeVars, now, req, conn, entity, users>>

\* the clock moves on between the caller's read and validateTaskInput's
FactoryElapse ==
  /\ call.phase = "called"
  /\ now < call.at + MaxElapsed
  /\ now' = now + 1
  /\ UNCHANGED <<storeVars, call, req, conn, entity, users>>

\* TaskFactory.createTask runs
FactoryReturn ==
  \E r \in Randoms :
    /\ call.phase = "called"
    /\ call' = [call EXCEPT
                  !.phase = "done",
                  !.result = FactoryCreateTask(call.input.title, call.input.description,
                                               call.input.dueDate, call.input.createdByUserId,
                                               call.input.category, call.input.priority,
                                               now, r)]
    /\ UNCHANGED <<storeVars, now, req, conn, entity, users>>

NextFactory ==
  \/ FactoryCall
  \/ FactoryElapse
  \/ FactoryReturn

SpecFactory == InitFactory /\ [][NextFactory]_vars

\* ------------------------------------------- HTTP requests (SpecHttp)
\* One request goes through the router: for /task the authentication
\* middleware, then the route's validation, then the controller method.
Route(name, prefix, validator, handler) ==
  [name |-> name, prefix |-> prefix, validator |-> validator, handler |-> handler]

AuthRoutes ==
  {Route("POST /auth/register", "auth", "registerValidator", "register"),
   Route("POST /auth/login", "auth", "loginValidator", "login"),
   Route("POST /auth/logout", "auth", "tokenValidator", "logout"),
   Route("POST /auth/refresh-token", "auth", "tokenValidator", "refreshToken"),
   Route("POST /auth/change-password", "auth", "changePasswordValidator", "changePassword"),
   Route("GET /auth/profile", "auth", "none", "getUserProfile")}

TaskRoutes ==
  {Route("POST /task", "task", "createTask", "createTask"),
   Route("PUT /task/:id", "task", "updateTask", "updateTask"),
   Route("GET /task/:id", "task", "taskId", "getTask"),
   Route("GET /task", "task", "none", "getUserTasks"),
   Route("GET /task/category/:category", "task", "category", "getCategoryTasks"),
   Route("GET /task/user-category/:category", "task", "category", "getUserCategoryTasks"),
   Route("DELETE /task/:id", "task", "taskId", "deleteTask"),
   Route("PATCH /task/:id/complete", "task", "taskId", "markTaskAsCompleted")}

\* router.use('/auth', ...), router.use('/task', authMiddleware, ...)
Routes == AuthRoutes \cup TaskRoutes

\* The Authorization header of a request: absent, of another scheme, or
\* 'Bearer <token>' with a token that is no JWT of this server, an expired
\* one, a good one of a user since removed, a good one of an existing user.
Headers == {"none", "basic", "garbage", "expired", "nouser", "valid"}
BearerHeaders == {"garbage", "expired", "nouser", "valid"}

\* what the use cases behind a controller method do: return, find the task
\* id not in the store at the method's first store call, find it there but no
\* longer at the second (updateTask and mark-complete look the task up before
\* they call the service's updateTask), throw another error
ServiceOutcomes == {"ok", "absent", "gone", "error"}
TwoLookupHandlers == {"updateTask", "markTaskAsCompleted"}

\* AuthMiddleware.extractTokenFromHeader: the token, "" for null
extractTokenFromHeader(header) == IF header \in BearerHeaders THEN header ELSE ""

\* AuthenticationService.verifyToken: jwt.verify and the user lookup in one
\* try, every failure rethrown as Error('Invalid or expired token')
verifyToken(token) ==
  IF token = "valid" THEN [err |-> "", user |-> TRUE]
  ELSE [err |-> "Invalid or expired token", user |-> FALSE]

\* AuthenticationService.logout(token): writes a line to the console and
\* resolves; the record of the call
logout(token) ==
  [op |-> "logout", arg |-> [token |-> token], err |-> "", task |-> Null, list |-> {},
   calls |-> <<>>]

\* what userService.getUserById(decoded.getId()) in the middleware does, after
\* verifyToken has found the user: finds it, finds it removed meanwhile, throws
UserLookups == {"found", "absent", "error"}

authenticate_NextWithoutUser(header, lookup) ==
  LET token == extractTokenFromHeader(header)
      decoded == verifyToken(token)
  IN IF token = "" THEN [status |-> 401, next |-> FALSE, user |-> FALSE]
     ELSE IF decoded.err # "" THEN [status |-> 500, next |-> FALSE, user |-> FALSE]
     ELSE IF lookup = "error" THEN [status |-> 500, next |-> FALSE, user |-> FALSE]
     ELSE [status |-> 0, next |-> TRUE, user |-> lookup = "found"]

\* AuthMiddleware.authenticate: [status, next, user]; status 0 is no response
authenticate(header, lookup) ==
  LET token == extractTokenFromHeader(header)
      decoded == verifyToken(token)
  IN IF token = "" THEN [status |-> 401, next |-> FALSE, user |-> FALSE]
     ELSE IF decoded.err # "" THEN [status |-> 500, next |-> FALSE, user |-> FALSE]
     ELSE IF lookup = "absent" THEN [status |-> 401, next |-> FALSE, user |-> FALSE]
     ELSE IF lookup = "error" THEN [status |-> 500, next |-> FALSE, user |-> FALSE]
     ELSE [status |-> 0, next |-> TRUE, user |-> TRUE]

\* the validators of a route on the request: tokenValidator wants an
\* authorization header that starts with 'Bearer '; valid says whether the
\* body and the parameters satisfy the others
Validates(validator, header, valid) ==
  IF validator = "none" THEN TRUE
  ELSE IF validator = "tokenValidator" THEN header \in BearerHeaders
  ELSE valid

\* validate(validators): a request that fails them is answered 400
validate(validator, header, valid) ==
  IF Validates(validator, header, valid) THEN [status |-> 0, next |-> TRUE]
  ELSE [status |-> 400, next |-> FALSE]

\* req.headers.authorization?.split(' ')[1] in logout and refreshToken
SecondWord(header) == IF header = "none" THEN "" ELSE header

\* AuthenticationController: the status each method answers with
AuthControllerStatus(handler, header, user, outcome) ==
  CASE handler = "register" -> IF outcome = "ok" THEN 201 ELSE 400
    [] handler = "login" -> IF outcome = "ok" THEN 200 ELSE 401
    [] handler = "logout" -> IF SecondWord(header) = "" THEN 400 ELSE 200
    [] handler = "refreshToken" ->
         IF SecondWord(header) = "" THEN 401
         ELSE IF verifyToken(SecondWord(header)).err # "" THEN 401
         ELSE 200
    [] handler \in {"changePassword", "getUserProfile"} ->
         IF ~user THEN 400 ELSE IF outcome = "ok" THEN 200 ELSE 400

\* TaskController: the status each method answers with
TaskControllerStatus(handler, user, outcome) ==
  CASE handler = "createTask" ->
         IF ~user THEN 400 ELSE IF outcome = "ok" THEN 201 ELSE 400
    [] handler = "updateTask" ->
         IF outcome = "absent" THEN 404 ELSE IF outcome = "ok" THEN 200 ELSE 400
    [] handler = "getTask" ->
         IF outcome = "absent" THEN 404 ELSE IF outcome = "ok" THEN 200 ELSE 500
    [] handler \in {"getUserTasks", "getUserCategoryTasks"} ->
         IF ~user THEN 400 ELSE IF outcome = "error" THEN 500 ELSE 200
    [] handler = "getCategoryTasks" -> IF outcome = "error" THEN 500 ELSE 200
    [] handler = "deleteTask" -> IF outcome = "ok" THEN 204 ELSE 500
    [] handler = "markTaskAsCompleted" ->
         IF outcome \in {"absent", "gone"} THEN 404 ELSE IF outcome = "ok" THEN 200 ELSE 500

\* the writes to the response that a route's handler chains to the promise
\* of the controller method: POST / and PUT /:id chain a .then that writes
\* and a .catch that writes
ThenWrites(route) == IF route.name \in {"POST /task", "PUT /task/:id"} THEN 2 ELSE 0

\* the stage after the authentication middleware
AfterAuth(route) == IF route.validator = "none" THEN "controller" ELSE "validate"

InitHttp ==
  /\ store = [n \in {} |-> Null]
  /\ nextOid = 1
  /\ now = 0
  /\ pc = [p \in Procs |-> "idle"]
  /\ local = [p \in Procs |-> NoLocal]
  /\ last = NoLast
  /\ call = NoCall
  /\ req = NoRequest
  /\ conn = NoConn
  /\ entity = NoEntity
  /\ users = NoUsers

\* a request arrives
HttpReceive ==
  \E route \in Routes, header \in Headers, valid \in BOOLEAN :
    /\ req.stage \in {"none", "done"}
    /\ req' = [stage |-> IF route.prefix = "task" THEN "auth" ELSE AfterAuth(route),
               route |-> route, header |-> header, valid |-> valid,
               user |-> FALSE, status |-> 0, reached |-> FALSE, outcome |-> "none",
               writes |-> 0, nexts |-> 0, lookup |-> "none"]
    /\ UNCHANGED <<storeVars, now, call, conn, entity, users>>

\* authMiddleware
HttpAuthenticate ==
  /\ req.stage = "auth"
  /\ \E lookup \in UserLookups :
       LET a == authenticate(req.header, lookup)
       IN req' = [req EXCEPT !.stage = IF a.next THEN AfterAuth(req.route) ELSE "done",
                             !.status = a.status, !.user = a.user,
                             !.lookup = IF verifyToken(extractTokenFromHeader(req.header)).err = ""
                                        THEN lookup ELSE "none",
                             !.writes = IF a.status # 0 THEN req.writes + 1 ELSE req.writes,
                             !.nexts = IF a.next THEN req.nexts + 1 ELSE req.nexts]
  /\ UNCHANGED <<storeVars, now, call, conn, entity, users>>

\* validate(...)
HttpValidate ==
  /\ req.stage = "validate"
  /\ LET v == validate(req.route.validator, req.header, req.valid)
     IN req' = [req EXCEPT !.stage = IF v.next THEN "controller" ELSE "done",
                           !.status = v.status,
                           !.writes = IF v.status # 0 THEN req.writes + 1 ELSE req.writes]
  /\ UNCHANGED <<storeVars, now, call, conn, entity, users>>

\* the controller method of the route runs and answers
HttpController ==
  \E outcome \in ServiceOutcomes :
    /\ req.stage = "controller"
    /\ outcome = "gone" => req.route.handler \in TwoLookupHandlers
    /\ req' = [req EXCEPT
                 !.stage = IF ThenWrites(req.route) > 0 THEN "then" ELSE "done",
                 !.reached = TRUE,
                 !.outcome = outcome,
                 !.writes = req.writes + 1,
                 !.status = IF req.route.prefix = "auth"
                            THEN AuthControllerStatus(req.route.handler, req.header,
                                                      req.user, outcome)
                            ELSE TaskControllerStatus(req.route.handler, req.user, outcome)]
    /\ last' = IF req.route.handler = "logout" /\ SecondWord(req.header) # ""
               THEN logout(SecondWord(req.header))
               ELSE last
    /\ UNCHANGED <<store, nextOid, pc, local, now, call, conn, entity, users>>

\* the promise the controller method returned resolves (it always does: the
\* method catches every error and has answered): the route's .then callback
\* writes a 201 or a body to the response already sent, which throws, and the
\* route's .catch callback writes an error to it in turn
HttpRouteThen ==
  /\ req.stage = "then"
  /\ req' = [req EXCEPT !.stage = "done", !.writes = req.writes + ThenWrites(req.route)]
  /\ UNCHANGED <<storeVars, now, call, conn, entity, users>>

NextHttp ==
  \/ HttpReceive
  \/ HttpAuthenticate
  \/ HttpValidate
  \/ HttpController
  \/ HttpRouteThen

SpecHttp == InitHttp /\ [][NextHttp]_vars

\* ------------------------------- the database connection (SpecConn)
\* MongoPersistenceConnection.getInstance(), on which the application calls
\* connect() once at startup; the driver and the timers call back later.
maxRetryAttempts == 5
baseRetryInterval == 5000

\* APP_CONFIG.environment: NODE_ENV, 'development' when it is not set
Environments == {"development", "production", "test"}

\* a handleConnectionError that computes the delay after the increment
handleConnectionError_DelayAfterIncrement(c) ==
  IF c.exited THEN c
  ELSE IF c.retryAttempts < maxRetryAttempts
  THEN [c EXCEPT !.lastDelay = baseRetryInterval * 2 ^ (c.retryAttempts + 1),
                 !.retryAttempts = c.retryAttempts + 1,
                 !.timers = c.timers + 1,
                 !.gaveUp = FALSE]
  ELSE IF c.env = "development" THEN [c EXCEPT !.exited = TRUE]
  ELSE [c EXCEPT !.gaveUp = TRUE]

\* a handleConnectionError that retries once more at the cap
handleConnectionError_OffByOne(c) ==
  IF c.exited THEN c
  ELSE IF c.retryAttempts <= maxRetryAttempts
  THEN [c EXCEPT !.lastDelay = baseRetryInterval * 2 ^ c.retryAttempts,
                 !.retryAttempts = c.retryAttempts + 1,
                 !.timers = c.timers + 1,
                 !.gaveUp = FALSE]
  ELSE IF c.env = "development" THEN [c EXCEPT !.exited = TRUE]
  ELSE [c EXCEPT !.gaveUp = TRUE]

\* handleConnectionError on the connection c; nothing runs once the process
\* has exited
handleConnectionError(c) ==
  IF c.exited THEN c
  ELSE IF c.retryAttempts < maxRetryAttempts
  THEN [c EXCEPT !.lastDelay = baseRetryInterval * 2 ^ c.retryAttempts,
                 !.retryAttempts = c.retryAttempts + 1,
                 !.timers = c.timers + 1,
                 !.gaveUp = FALSE]
  ELSE IF c.env = "development" THEN [c EXCEPT !.exited = TRUE]
  ELSE [c EXCEPT !.gaveUp = TRUE]

\* the 'error' listeners of k successful connect() calls, one after another
RECURSIVE ErrorListeners(_, _)
ErrorListeners(c, k) ==
  IF k = 0 THEN c ELSE ErrorListeners(handleConnectionError(c), k - 1)

\* the 'connected' listeners, if any is registered
ConnectedListeners(c) == IF c.listeners > 0 THEN [c EXCEPT !.retryAttempts = 0] ELSE c

InitConn ==
  /\ store = [n \in {} |-> Null]
  /\ nextOid = 1
  /\ now = 0
  /\ pc = [p \in Procs |-> "idle"]
  /\ local = [p \in Procs |-> NoLocal]
  /\ last = NoLast
  /\ call = NoCall
  /\ req = NoRequest
  /\ entity = NoEntity
  /\ users = NoUsers
  /\ \E env \in Environments :
       conn = [env |-> env, retryAttempts |-> 0, connecting |-> 1, timers |-> 0,
               lastDelay |-> 0, listeners |-> 0, up |-> FALSE, exited |-> FALSE,
               gaveUp |-> FALSE, calls |-> 1]

\* the mongoose.connect of a connect() call rejects: the catch block
ConnectFails ==
  /\ ~conn.exited
  /\ conn.connecting > 0
  /\ ~conn.up
  /\ LET c == [conn EXCEPT !.connecting = conn.connecting - 1]
     IN conn' = IF c.env = "development" THEN [c EXCEPT !.exited = TRUE]
                ELSE handleConnectionError(c)
  /\ UNCHANGED <<storeVars, now, call, req, entity, users>>

\* the mongoose.connect of a connect() call resolves: a connection that
\* opens emits 'connected' to the listeners there are, then connect()
\* registers its own
ConnectSucceeds ==
  /\ ~conn.exited
  /\ conn.connecting > 0
  /\ conn.listeners < MaxListeners
  /\ LET c == IF conn.up THEN conn ELSE ConnectedListeners(conn)
     IN conn' = [c EXCEPT !.connecting = c.connecting - 1, !.up = TRUE,
                          !.listeners = c.listeners + 1]
  /\ UNCHANGED <<storeVars, now, call, req, entity, users>>

\* the connection emits 'error'
ConnectionError ==
  /\ ~conn.exited
  /\ conn.listeners > 0
  /\ LET c == ErrorListeners(conn, conn.listeners)
     IN /\ c.timers + c.connecting <= MaxPending
        /\ conn' = c
  /\ UNCHANGED <<storeVars, now, call, req, entity, users>>

\* the connection is lost: 'disconnected' is only logged
Disconnected ==
  /\ ~conn.exited
  /\ conn.up
  /\ conn' = [conn EXCEPT !.up = FALSE]
  /\ UNCHANGED <<storeVars, now, call, req, entity, users>>

\* the driver re-opens the connection by itself and emits 'connected'
Reconnected ==
  /\ ~conn.exited
  /\ ~conn.up
  /\ conn.listeners > 0
  /\ conn' = [ConnectedListeners(conn) EXCEPT !.up = TRUE]
  /\ UNCHANGED <<storeVars, now, call, req, entity, users>>

\* a retry timer fires: connect() is called again
TimerFires ==
  /\ ~conn.exited
  /\ conn.timers > 0
  /\ conn.calls < MaxCalls
  /\ conn' = [conn EXCEPT !.timers = conn.timers - 1, !.connecting = conn.connecting + 1,
                          !.calls = conn.calls + 1]
  /\ UNCHANGED <<storeVars, now, call, req, entity, users>>

NextConn ==
  \/ ConnectFails
  \/ ConnectSucceeds
  \/ ConnectionError
  \/ Disconnected
  \/ Reconnected
  \/ TimerFires

SpecConn == InitConn /\ [][NextConn]_vars

\* ----------------------------------------------- a Task object (SpecTask)
\* The setters of Task: t is what new Date() yields in the setter.
setTitle(task, title, t) == [task EXCEPT !.title = title, !.updatedAt = t]

setDescription(task, description, t) ==
  [task EXCEPT !.description = description, !.updatedAt = t]

\* a setStatus that leaves updatedAt alone
setStatus_NoTouch(task, status, t) == [task EXCEPT !.status = status]

setStatus(task, status, t) == [task EXCEPT !.status = status, !.updatedAt = t]

setPriority(task, priority, t) == [task EXCEPT !.priority = priority, !.updatedAt = t]

setDueDate(task, dueDate, t) == [task EXCEPT !.dueDate = dueDate, !.updatedAt = t]

setCategory(task, category, t) == [task EXCEPT !.category = category, !.updatedAt = t]

\* an isOverdue that counts a task due at this very millisecond
isOverdue_Inclusive(task, t) == task.dueDate # InvalidDate /\ task.dueDate <= t

\* Task.isOverdue: this.dueDate < new Date(); a comparison with an Invalid
\* Date (NaN) is false
isOverdue(task, t) == task.dueDate # InvalidDate /\ task.dueDate < t

\* the values the setters are called with
SetterInputs ==
  [setTitle |-> {<<"b">>}, setDescription |-> {<<"y">>}, setStatus |-> {IN_PROGRESS, DONE},
   setPriority |-> {HIGH}, setDueDate |-> {InvalidDate} \cup (0 .. MaxTime),
   setCategory |-> {Home}]

\* new Task('', ...) with createdAt and updatedAt left to their default
InitTask ==
  /\ store = [n \in {} |-> Null]
  /\ nextOid = 1
  /\ now = 0
  /\ pc = [p \in Procs |-> "idle"]
  /\ local = [p \in Procs |-> NoLocal]
  /\ last = NoLast
  /\ call = NoCall
  /\ req = NoRequest
  /\ conn = NoConn
  /\ \E dueDate \in 0 .. MaxTime :
       entity = Task(EmptyId, <<"a">>, <<"x">>, TODO, MEDIUM, dueDate, UserU, Work, now, now)
  /\ users = NoUsers

\* the clock of the Task object's process
TaskTick ==
  /\ now <= MaxTime
  /\ now' = now + 1
  /\ UNCHANGED <<store, nextOid, pc, local, last, call, req, conn, entity, users>>

\* a setter call: last records the setter, its argument and the clock
SetterCall(op, value, result) ==
  /\ entity' = result
  /\ last' = [op |-> op, arg |-> [value |-> value, at |-> now], err |-> "", task |-> Null,
              list |-> {}, calls |-> <<>>]
  /\ UNCHANGED <<store, nextOid, now, pc, local, call, req, conn, users>>

SetTitle == \E v \in SetterInputs.setTitle : SetterCall("setTitle", v, setTitle(entity, v, now))

SetDescription ==
  \E v \in SetterInputs.setDescription :
    SetterCall("setDescription", v, setDescription(entity, v, now))

SetStatus ==
  \E v \in SetterInputs.setStatus : SetterCall("setStatus", v, setStatus(entity, v, now))

SetPriority ==
  \E v \in SetterInputs.setPriority : SetterCall("setPriority", v, setPriority(entity, v, now))

SetDueDate ==
  \E v \in SetterInputs.setDueDate : SetterCall("setDueDate", v, setDueDate(entity, v, now))

SetCategory ==
  \E v \in SetterInputs.setCategory : SetterCall("setCategory", v, setCategory(entity, v, now))

\* task.isOverdue()
IsOverdue ==
  /\ last' = [op |-> "isOverdue", arg |-> [value |-> isOverdue(entity, now), at |-> now],
              err |-> "", task |-> Null, list |-> {}, calls |-> <<>>]
  /\ UNCHANGED <<store, nextOid, now, pc, local, call, req, conn, entity, users>>

NextTask ==
  \/ TaskTick
  \/ SetTitle
  \/ SetDescription
  \/ SetStatus
  \/ SetPriority
  \/ SetDueDate
  \/ SetCategory
  \/ IsOverdue

SpecTask == InitTask /\ [][NextTask]_vars

\* ------------------------------------ AuthenticationService (SpecAuth)
UserIds == {"u1", "u2", "u3"}
Emails == {"e1", "e2", "e3"}
Passwords == {"p1", "p2", "p3"}
NoToken == Null

\* bcrypt.hash: a salted hash; two hashes of one password differ by their salt
Hash(password, salt) == [bcrypt |-> password, salt |-> salt]

\* bcrypt.compare: whether the hash was made from the password
compare(password, hash) == hash.bcrypt = password

\* MongoDBUserRepository.findById
UserFindById(us, id) ==
  IF id \in DOMAIN us THEN [id |-> id, email |-> us[id].email, passwordHash |-> us[id].passwordHash]
  ELSE Null

\* MongoDBUserRepository.findByEmail: findOne({ email })
findByEmail(us, email) ==
  LET ids == {u \in DOMAIN us : us[u].email = email}
  IN IF ids = {} THEN Null ELSE UserFindById(us, CHOOSE u \in ids : TRUE)

\* UserService.getUserByEmail, getUserById and updateUser: the repository's
\* lookups, and a write of the given fields to the user's document
getUserByEmail(us, email) == findByEmail(us, email)
getUserById(us, id) == UserFindById(us, id)
updateUser(us, id, passwordHash) ==
  IF id \in DOMAIN us THEN [us EXCEPT ![id].passwordHash = passwordHash] ELSE us

\* AuthenticationService.generateToken: the signed payload
generateToken(user) == [id |-> user.id, email |-> user.email]

\* the error login's try block throws, "" when it returns
LoginCause(us, email, password) ==
  LET user == getUserByEmail(us, email)
  IN IF user = Null THEN "User not found"
     ELSE IF ~compare(password, user.passwordHash) THEN "Invalid password"
     ELSE ""

login_Disclosing(us, email, password) ==
  LET cause == LoginCause(us, email, password)
  IN [err |-> cause, cause |-> cause,
      token |-> IF cause = "" THEN generateToken(getUserByEmail(us, email)) ELSE NoToken]

\* AuthenticationService.login: every error of the try block is replaced
login(us, email, password) ==
  LET cause == LoginCause(us, email, password)
  IN [err |-> IF cause = "" THEN "" ELSE "Authentication failed", cause |-> cause,
      token |-> IF cause = "" THEN generateToken(getUserByEmail(us, email)) ELSE NoToken]

\* JSON.stringify of an Error: none of its properties is enumerable
ErrorJson(err) == "{}"

\* AuthenticationController.login
LoginResponse(result) ==
  IF result.err = "" THEN [status |-> 200, message |-> "", token |-> result.token, error |-> ""]
  ELSE [status |-> 401, message |-> "Authentication failed", token |-> NoToken,
        error |-> ErrorJson(result.err)]

changePassword_NoCheck(us, userId, currentPassword, newPassword, salt) ==
  LET user == getUserById(us, userId)
  IN IF user = Null THEN [err |-> "User not found", users |-> us]
     ELSE [err |-> "", users |-> updateUser(us, userId, Hash(newPassword, salt))]

\* AuthenticationService.changePassword
changePassword(us, userId, currentPassword, newPassword, salt) ==
  LET user == getUserById(us, userId)
  IN IF user = Null THEN [err |-> "User not found", users |-> us]
     ELSE IF ~compare(currentPassword, user.passwordHash)
       THEN [err |-> "Current password is incorrect", users |-> us]
     ELSE [err |-> "", users |-> updateUser(us, userId, Hash(newPassword, salt))]

\* two registered users; "u3" and "e3" are unknown
InitAuth ==
  /\ store = [n \in {} |-> Null]
  /\ nextOid = 1
  /\ now = 0
  /\ pc = [p \in Procs |-> "idle"]
  /\ local = [p \in Procs |-> NoLocal]
  /\ last = NoLast
  /\ call = NoCall
  /\ req = NoRequest
  /\ conn = NoConn
  /\ entity = NoEntity
  /\ users = [u \in {"u1", "u2"} |->
                IF u = "u1" THEN [email |-> "e1", passwordHash |-> Hash("p1", 0)]
                ELSE [email |-> "e2", passwordHash |-> Hash("p2", 0)]]

\* POST /auth/login
Login ==
  \E email \in Emails, password \in Passwords :
    LET result == login(users, email, password)
    IN /\ last' = [op |-> "login", arg |-> [email |-> email, password |-> password],
                   err |-> result.err, cause |-> result.cause, token |-> result.token,
                   response |-> LoginResponse(result)]
       /\ UNCHANGED <<store, nextOid, now, pc, local, call, req, conn, entity, users>>

\* AuthenticationService.changePassword called for a user id
ChangePassword ==
  \E userId \in UserIds, currentPassword \in Passwords, newPassword \in Passwords,
     salt \in Randoms :
    LET result == changePassword(users, userId, currentPassword, newPassword, salt)
    IN /\ users' = result.users
       /\ last' = [op |-> "changePassword",
                   arg |-> [userId |-> userId, currentPassword |-> currentPassword,
                            newPassword |-> newPassword, salt |-> salt],
                   err |-> result.err, cause |-> result.err, token |-> NoToken,
                   response |-> Null]
       /\ UNCHANGED <<store, nextOid, now, pc, local, call, req, conn, entity>>

NextAuth ==
  \/ Login
  \/ ChangePassword

SpecAuth == InitAuth /\ [][NextAuth]_vars

\* ----------------------------------------------------------- TaskController
\* TaskController.getTask: the status of the response to GET /task/:id
GetTaskStatus(found) ==
  IF found.err # "" THEN 500
  ELSE IF found.task = Null THEN 404
  ELSE 200

\* ---------------------------------------------------------------- claims
\* the task a getTaskById on the store would return for id
Stored(st, id) == RepoFindById(st, id).task

\* an input createTask is documented to accept: title, description and user
\* id not blank, the due date a date that is not before the clock read
ValidCreateInput(arg) ==
  /\ ~IsBlank(arg.input.title)
  /\ ~IsBlank(arg.input.description)
  /\ ~IsBlank(arg.input.createdByUserId)
  /\ arg.input.dueDate # InvalidDate
  /\ arg.input.dueDate >= arg.at

\* C1: for every valid input TaskService.createTask adds exactly one new
\* record to the store, returns it, and getTaskById of the returned id
\* returns that task.
C1_CreateAddsOneTask ==
  [][(last' # last /\ last'.op = "createTask" /\ ValidCreateInput(last'.arg))
       => /\ last'.err = ""
          /\ last'.task # Null
          /\ \E n \in DOMAIN store' \ DOMAIN store :
               /\ DOMAIN store' = DOMAIN store \cup {n}
               /\ last'.task = mapToTask(n, store'[n])
          /\ \A m \in DOMAIN store : m \in DOMAIN store' /\ store'[m] = store[m]
          /\ Stored(store', last'.task.id) = last'.task]_vars

\* C2 as stated: createTask with a due date earlier than the current time
\* throws 'Due date cannot be in the past', returns no task, calls no save
\* and leaves the store unchanged.
C2_Original ==
  [][(last' # last /\ last'.op = "createTask"
        /\ last'.arg.input.dueDate # InvalidDate
        /\ last'.arg.input.dueDate < last'.arg.at)
       => /\ last'.err = "Due date cannot be in the past"
          /\ last'.task = Null
          /\ last'.calls = <<>>
          /\ store' = store]_vars

\* C2 (amended): createTask with a title and a description that are not
\* blank and a due date earlier than the current time throws 'Due date
\* cannot be in the past', returns no task, calls no save and leaves the
\* store unchanged; with a blank title or description the call is rejected
\* with that field's message instead, the store equally untouched.
C2_PastDueDateRejected ==
  [][(last' # last /\ last'.op = "createTask"
        /\ last'.arg.input.dueDate # InvalidDate
        /\ last'.arg.input.dueDate < last'.arg.at)
       => /\ last'.err = IF IsBlank(last'.arg.input.title)
                           THEN "Task title cannot be empty"
                         ELSE IF IsBlank(last'.arg.input.description)
                           THEN "Task description cannot be empty"
                         ELSE "Due date cannot be in the past"
          /\ last'.task = Null
          /\ last'.calls = <<>>
          /\ store' = store
          /\ nextOid' = nextOid]_vars

C2_Witness ==
  /\ last.op = "createTask"
  /\ last.arg.input.dueDate < last.arg.at
  /\ ~IsBlank(last.arg.input.title)
  /\ last.err = "Due date cannot be in the past"
  /\ DOMAIN store # {}

\* C4 as stated: updateTask with an id that is not in the store fails with
\* 'Task not found', calls no save and leaves every stored task unchanged.
C4_Original ==
  [][(last' # last /\ last'.op = "updateTask" /\ Stored(store, last'.arg.id) = Null)
       => /\ last'.err = "Task not found"
          /\ last'.calls = <<"findById">>
          /\ store' = store]_vars

\* C4 (amended): updateTask with an id that is not in the store fails, calls
\* no setter and no save and leaves every stored task unchanged; the error
\* is 'Task not found' when the id is a well-formed ObjectId string, and the
\* cast error of findById when it is not.
C4_UpdateMissingTaskFails ==
  [][(last' # last /\ last'.op = "updateTask" /\ Stored(store, last'.arg.id) = Null)
       => /\ last'.err = IF last'.arg.id.k = "oid" THEN "Task not found" ELSE "CastError"
          /\ last'.task = Null
          /\ last'.calls = <<"findById">>
          /\ store' = store]_vars

C4_Witness ==
  /\ last.op = "updateTask"
  /\ last.arg.id.k = "oid"
  /\ last.arg.id.n \notin DOMAIN store
  /\ last.err = "Task not found"
  /\ DOMAIN store # {}

\* C3: TaskFactory.createTask rejects an input whose title, description or
\* user id is blank with that field's message ('Task title cannot be empty',
\* 'Task description cannot be empty', 'User ID cannot be empty', the first
\* blank field in that order) and constructs no task; for the user id this
\* is so whenever the due date passed was not in the past when the caller
\* passed it, the current time included.
C3_BlankFieldsRejected ==
  call.phase = "done" =>
    LET in == call.input
        blank == IsBlank(in.title) \/ IsBlank(in.description) \/ IsBlank(in.createdByUserId)
    IN /\ IsBlank(in.title) => call.result.err = "Task title cannot be empty"
       /\ (~IsBlank(in.title) /\ IsBlank(in.description))
            => call.result.err = "Task description cannot be empty"
       /\ (~IsBlank(in.title) /\ ~IsBlank(in.description) /\ IsBlank(in.createdByUserId)
             /\ in.dueDate # InvalidDate /\ in.dueDate >= call.at)
            => call.result.err = "User ID cannot be empty"
       /\ blank => call.result.task = Null

\* the ids the store has handed out whose document it no longer holds: those
\* of the tasks a deleteTask removed
Deleted(st, next) == {n \in 1 .. MaxTasks : n < next /\ n \notin DOMAIN st}

\* C5: once deleteTask(id) has succeeded, whatever the requests do next, also
\* those that had read the task before: the task stays out of the store,
\* every getTaskById(id) returns null (404 at the controller), every further
\* deleteTask(id) fails with 'Task not found'; and a deleteTask removes the
\* task it names and no other.
C5_DeletedStaysDeleted ==
  [][/\ \A n \in Deleted(store, nextOid) :
          /\ n \in Deleted(store', nextOid')
          /\ (last' # last /\ last'.op = "getTaskById" /\ last'.arg.id = Oid(n))
               => /\ last'.err = ""
                  /\ last'.task = Null
                  /\ GetTaskStatus(RepoFindById(store', Oid(n))) = 404
          /\ (last' # last /\ last'.op = "deleteTask" /\ last'.arg.id = Oid(n))
               => last'.err = "Task not found"
     /\ (last' # last /\ last'.op = "deleteTask")
          => IF last'.err = ""
             THEN /\ last'.arg.id.n \in DOMAIN store
                  /\ DOMAIN store' = DOMAIN store \ {last'.arg.id.n}
                  /\ \A m \in DOMAIN store' : store'[m] = store[m]
             ELSE store' = store]_vars

\* a get of a deleted task answers null while the other task is still stored
\* and a request that read the deleted task before is still about to save
C5_Witness ==
  /\ last.op = "getTaskById"
  /\ last.arg.id = Oid(1)
  /\ last.task = Null
  /\ 1 \in Deleted(store, nextOid)
  /\ 2 \in DOMAIN store
  /\ \E p \in Procs : pc[p] = "save" /\ local[p].id = Oid(1)

\* C6: getTasksByCategory returns exactly the stored tasks whose category
\* name is the requested one: none of another category, none omitted, and
\* the empty list when none matches.
C6_ByCategoryExact ==
  last.op = "getTasksByCategory" =>
    /\ \A t \in last.list :
         /\ t.category.name = last.arg.category.name
         /\ Stored(store, t.id) = t
    /\ \A n \in DOMAIN store :
         store[n].category.name = last.arg.category.name
           => \E t \in last.list : t.id = Oid(n)
    /\ (\A n \in DOMAIN store : store[n].category.name # last.arg.category.name)
         => last.list = {}

C6_Witness ==
  /\ last.op = "getTasksByCategory"
  /\ last.list # {}
  /\ \E n \in DOMAIN store : store[n].category.name # last.arg.category.name
  /\ \E t \in last.list : t.category # last.arg.category

\* C7: list-mine and list-mine-by-category return exactly the stored tasks
\* created by the requesting user (of the requested category name, for the
\* second); a task of another user is never in the result.
C7_MineOnly ==
  /\ last.op = "getTasksByUser" =>
       /\ \A t \in last.list :
            t.createdByUserId = last.arg.userId /\ Stored(store, t.id) = t
       /\ \A n \in DOMAIN store :
            store[n].createdByUserId = last.arg.userId
              => \E t \in last.list : t.id = Oid(n)
  /\ last.op = "getTasksByUserAndCategory" =>
       /\ \A t \in last.list :
            /\ t.createdByUserId = last.arg.userId
            /\ t.category.name = last.arg.category.name
            /\ Stored(store, t.id) = t
       /\ \A n \in DOMAIN store :
            (/\ store[n].createdByUserId = last.arg.userId
             /\ store[n].category.name = last.arg.category.name)
              => \E t \in last.list : t.id = Oid(n)

C7_Witness ==
  /\ last.op = "getTasksByUserAndCategory"
  /\ last.list # {}
  /\ \E n \in DOMAIN store :
       /\ store[n].createdByUserId # last.arg.userId
       /\ store[n].category.name = last.arg.category.name

\* C8: mark-complete on an existing task, nothing interleaved, stores the
\* task with status DONE and leaves title, description, priority, due date,
\* category, owner id, id and creation time as they were before the call.
C8_MarkCompleteFrame ==
  (last.op = "markTaskAsCompleted" /\ last.arg.read # Null) =>
    /\ last.err = ""
    /\ Stored(store, last.arg.id) = last.task
    /\ last.task.status = DONE
    /\ \A f \in {"id", "title", "description", "priority", "dueDate", "category",
                 "createdByUserId", "createdAt"} :
         last.task[f] = last.arg.read[f]

C8_Witness ==
  /\ last.op = "markTaskAsCompleted"
  /\ last.arg.read # Null
  /\ last.arg.read.status = IN_PROGRESS
  /\ last.arg.read.title = <<"b">>
  /\ last.task.status = DONE
  /\ last.task.updatedAt > last.task.createdAt

\* C9: a request to logout, refresh-token, change-password, profile or any
\* /task route whose Authorization header is absent, of another scheme, or
\* carries a token that is no JWT of this server or an expired one never
\* reaches the controller method and is answered 401.
C9_ProtectedRoutesNeedToken ==
  (/\ req.stage # "none"
   /\ req.route.name \notin {"POST /auth/register", "POST /auth/login"}
   /\ req.header \in {"none", "basic", "garbage", "expired"})
    => /\ ~req.reached
       /\ req.stage = "done" => req.status = 401

\* C10: in every environment the process is terminated, or the connection
\* given up, only after the retry cap has been reached: as long as the
\* counter is below maxRetryAttempts a failure leads to another retry, the
\* failure of the very first connect() call included; and only development
\* mode terminates the process.
C10_RetryUntilCapThenStop ==
  /\ (conn.exited \/ conn.gaveUp) => conn.retryAttempts = maxRetryAttempts
  /\ conn.exited => conn.env = "development"

\* the six fields an update writes, in a stored document and in a taskData
SameRecord(doc, data) ==
  /\ doc.title = data.title
  /\ doc.description = data.description
  /\ doc.status = data.status
  /\ doc.priority = data.priority
  /\ doc.dueDate = data.dueDate
  /\ doc.category = data.category

\* C11: updates are last-write-wins. While the task they name is in the
\* store, the steps of overlapping updateTask and mark-complete requests never
\* fail, in whatever order the store runs their finds and saves; and the save
\* of a request leaves the stored task equal, in title, description, status,
\* priority, due date and category, to the record that request wrote, whatever
\* another request had saved since this one read the task.
C11_LastWriteWins ==
  [][/\ \A p \in Procs :
          /\ (pc[p] = "save" /\ pc'[p] = "idle" /\ local[p].id.n \in DOMAIN store)
               => /\ last'.op = local[p].op
                  /\ last'.err = ""
                  /\ local[p].id.n \in DOMAIN store'
                  /\ SameRecord(store'[local[p].id.n], local[p].data)
          /\ (pc[p] = "find" /\ pc'[p] # "find" /\ local[p].id.n \in DOMAIN store)
               => pc'[p] = "save"
     /\ (/\ last' # last
         /\ last'.op \in {"updateTask", "markTaskAsCompleted"}
         /\ last'.arg.id.n \in DOMAIN store)
          => last'.err = ""]_vars

\* an updateTask has saved IN_PROGRESS over a task that a mark-complete read
\* as TODO before; the mark-complete has since found the task again and is
\* about to save its record
C11_Witness ==
  \E q \in Procs :
    /\ last.op = "updateTask"
    /\ last.err = ""
    /\ last.arg.id = Oid(1)
    /\ last.task.status = IN_PROGRESS
    /\ 1 \in DOMAIN store
    /\ store[1].status = IN_PROGRESS
    /\ pc[q] = "save"
    /\ local[q].op = "markTaskAsCompleted"
    /\ local[q].id = Oid(1)
    /\ local[q].orig.status = TODO
    /\ local[q].data.status = DONE

\* C12: an update, delete or mark-complete request whose task id is not in
\* the store, at the controller's look-up or at the service's update after
\* it, is answered 404.
C12_NotFoundIs404 ==
  (/\ req.stage = "done"
   /\ req.reached
   /\ req.route.handler \in {"updateTask", "deleteTask", "markTaskAsCompleted"}
   /\ req.outcome \in {"absent", "gone"})
    => req.status = 404

\* r is s without its leading and trailing white space
IsTrimOf(r, s) ==
  \E i \in 1 .. Len(s) + 1 :
    \E j \in i - 1 .. Len(s) :
      /\ r = SubSeq(s, i, j)
      /\ \A k \in 1 .. Len(s) : (k < i \/ k > j) => s[k] = " "
      /\ r # <<>> => (r[1] # " " /\ r[Len(r)] # " ")

\* C13: the task a successful TaskFactory.createTask returns has the title
\* and the description given without their leading and trailing white space,
\* status TODO, the priority given or MEDIUM when none was, and the due date,
\* the category and the user id given.
C13_FactoryFields ==
  (call.phase = "done" /\ call.result.err = "") =>
    LET in == call.input
        task == call.result.task
    IN /\ task # Null
       /\ IsTrimOf(task.title, in.title)
       /\ IsTrimOf(task.description, in.description)
       /\ task.status = TODO
       /\ task.priority = (IF in.priority = "undefined" THEN MEDIUM ELSE in.priority)
       /\ task.dueDate = in.dueDate
       /\ task.category = in.category
       /\ task.createdByUserId = in.createdByUserId

\* a task made from a title with white space on both sides and no priority
C13_Witness ==
  /\ call.phase = "done"
  /\ call.result.err = ""
  /\ call.input.title = <<" ", "a", " ">>
  /\ call.input.priority = "undefined"
  /\ call.result.task.title = <<"a">>
  /\ call.result.task.priority = MEDIUM

\* C14: a task a successful TaskFactory.createTask returns has an id other
\* than that of the task the successful call before it returned, also when
\* both calls run within the same millisecond.
C14_UniqueIds ==
  (call.phase = "done" /\ call.result.err = "" /\ call.prev # Null)
    => call.result.task.id # call.prev

\* C15: a TaskFactory.createTask call whose due date is the time the caller
\* read right before the call is never rejected with 'Due date cannot be in
\* the past', and succeeds when its title, description and user id are not
\* blank.
C15_DueNowAccepted ==
  (call.phase = "done" /\ call.input.dueDate = call.at) =>
    /\ call.result.err # "Due date cannot be in the past"
    /\ (/\ ~IsBlank(call.input.title)
        /\ ~IsBlank(call.input.description)
        /\ ~IsBlank(call.input.createdByUserId))
         => call.result.err = ""

\* C16: MongoDBTaskRepository.save of a task whose id is '' inserts one new
\* record and returns it under the non-empty id the store gave it; save of a
\* task whose id is not '' inserts nothing: it updates the record of that id
\* and no other, or fails with 'Task not found' or 'Invalid task ID' and
\* leaves the store as it was.
C16_SaveInsertsOrUpdates ==
  [][(last' # last /\ last'.calls # <<>> /\ last'.calls[Len(last'.calls)] = "save")
       => IF last'.op = "save"
          THEN /\ last'.arg.task.id = EmptyId
               /\ last'.err = ""
               /\ \E n \in DOMAIN store' \ DOMAIN store :
                    /\ DOMAIN store' = DOMAIN store \cup {n}
                    /\ last'.task = mapToTask(n, store'[n])
                    /\ last'.task.id # EmptyId
               /\ \A m \in DOMAIN store : store'[m] = store[m]
          ELSE /\ DOMAIN store' = DOMAIN store
               /\ IF last'.err = ""
                  THEN /\ last'.task.id.k = "oid"
                       /\ last'.task.id.n \in DOMAIN store
                       /\ last'.task = mapToTask(last'.task.id.n, store'[last'.task.id.n])
                       /\ \A m \in DOMAIN store \ {last'.task.id.n} : store'[m] = store[m]
                  ELSE /\ last'.err \in {"Task not found", "Invalid task ID"}
                       /\ store' = store]_vars

\* the name of the field a setter writes
FieldOf(op) ==
  CASE op = "setTitle" -> "title"
    [] op = "setDescription" -> "description"
    [] op = "setStatus" -> "status"
    [] op = "setPriority" -> "priority"
    [] op = "setDueDate" -> "dueDate"
    [] op = "setCategory" -> "category"

Setters ==
  {"setTitle", "setDescription", "setStatus", "setPriority", "setDueDate", "setCategory"}

\* C17: a setter call leaves its own field with the value it was given (so a
\* getter returns the value of the latest call of its setter), sets updatedAt
\* to the time of the call, which is not earlier than updatedAt was, and
\* leaves every other field as it was.
C17_SettersFrame ==
  [][(last' # last /\ last'.op \in Setters)
       => /\ entity'[FieldOf(last'.op)] = last'.arg.value
          /\ entity'.updatedAt = last'.arg.at
          /\ entity'.updatedAt >= entity.updatedAt
          /\ \A f \in DOMAIN entity \ {FieldOf(last'.op), "updatedAt"} :
               entity'[f] = entity[f]]_vars

\* setStatus(DONE) was called on a task updated at an earlier time, whose
\* title an earlier setTitle had set
C17_Witness ==
  /\ last.op = "setStatus"
  /\ last.arg.value = DONE
  /\ entity.status = DONE
  /\ entity.title = <<"b">>
  /\ entity.updatedAt > entity.createdAt
  /\ entity.updatedAt = now

\* C18: isOverdue answers true when the due date is earlier than the current
\* time, false when it is the current time or later, and leaves the task as
\* it was.
C18_OverdueStrict ==
  [][(last' # last /\ last'.op = "isOverdue")
       => /\ entity.dueDate # InvalidDate
               => (last'.arg.value <=> entity.dueDate < now)
          /\ entity.dueDate = InvalidDate => ~last'.arg.value
          /\ entity' = entity]_vars

\* isOverdue has answered false for a task due at this very time
C18_Witness ==
  /\ last.op = "isOverdue"
  /\ last.arg.at = now
  /\ entity.dueDate = now
  /\ now > 0
  /\ ~last.arg.value

\* C19: once AuthenticationService.logout(token) has returned, verifyToken
\* rejects that token, and a later request that carries it is turned away by
\* the authentication middleware of the /task routes and is not answered 200
\* by refresh-token.
C19_LogoutInvalidates ==
  last.op = "logout" =>
    /\ verifyToken(last.arg.token).err # ""
    /\ (req.stage = "done" /\ req.header = last.arg.token) =>
         /\ req.route.prefix = "task" => ~req.reached
         /\ req.route.handler = "refreshToken" => req.status # 200

\* C20: a request to a /task route whose bearer token is no JWT of this
\* server, is expired, or is of a user that no longer exists is answered 401
\* by the authentication middleware.
C20_BadTokenIs401 ==
  (/\ req.stage = "done"
   /\ req.route.prefix = "task"
   /\ req.header \in {"garbage", "expired", "nouser"})
    => req.status = 401

\* updates carries a value for the setter f: the key is there and, for the
\* title and the description, the string is not empty
Carries(updates, f) ==
  /\ f \in DOMAIN updates
  /\ f \in {"setTitle", "setDescription"} => updates[f] # <<>>

\* the updatable fields, each with the key of updates that sets it
UpdatableFields ==
  [title |-> "setTitle", description |-> "setDescription", status |-> "setStatus",
   priority |-> "setPriority", dueDate |-> "setDueDate", category |-> "setCategory"]

\* a value given to a setter, as the store holds it
StoredValue(f, v) ==
  IF f = "category" THEN [name |-> v.name, description |-> v.description] ELSE v

\* C21: a successful TaskService.updateTask, nothing interleaved, leaves each
\* of title, description, status, priority, due date and category with the
\* value updates carries for it, or as stored when updates carries none (the
\* key absent, or an empty title or description); the id, the creating user
\* id and the creation time stay as they were, and so does every other task.
C21_UpdateFrame ==
  [][(last' # last /\ last'.op = "updateTask" /\ last'.err = "")
       => LET n == last'.arg.id.n
              updates == last'.arg.updates
          IN /\ n \in DOMAIN store
             /\ DOMAIN store' = DOMAIN store
             /\ \A f \in DOMAIN UpdatableFields :
                  store'[n][f] = IF Carries(updates, UpdatableFields[f])
                                 THEN StoredValue(f, updates[UpdatableFields[f]])
                                 ELSE store[n][f]
             /\ store'[n].createdByUserId = store[n].createdByUserId
             /\ store'[n].createdAt = store[n].createdAt
             /\ last'.task.id = last'.arg.id
             /\ last'.task = mapToTask(n, store'[n])
             /\ \A m \in DOMAIN store \ {n} : store'[m] = store[m]]_vars

\* an update with an empty title and nothing else has succeeded on a task
\* whose title and status an earlier update had set: both are kept
C21_Witness ==
  /\ last.op = "updateTask"
  /\ last.err = ""
  /\ last.arg.updates = [setTitle |-> <<>>]
  /\ last.task.title = <<"b">>
  /\ last.task.status = IN_PROGRESS
  /\ Stored(store, last.arg.id) = last.task

\* C22: when mark-complete has succeeded on a task and is executed again on
\* it, with no other operation in between, the second execution succeeds and
\* leaves the stored task with status DONE and with the title, description,
\* priority, due date and category the first execution left.
C22_MarkCompleteIdempotent ==
  [][(/\ last.op = "markTaskAsCompleted"
      /\ last.err = ""
      /\ last' # last
      /\ last'.op = "markTaskAsCompleted"
      /\ last'.arg.id = last.arg.id)
       => LET n == last.arg.id.n
          IN /\ last'.err = ""
             /\ n \in DOMAIN store /\ n \in DOMAIN store'
             /\ store[n].status = DONE
             /\ SameRecord(store'[n], store[n])
             /\ SameRecord(last'.task, store[n])]_vars

\* a mark-complete has succeeded on a task it read as DONE already, at a
\* later time than the task was completed first
C22_Witness ==
  /\ last.op = "markTaskAsCompleted"
  /\ last.err = ""
  /\ last.arg.read # Null
  /\ last.arg.read.status = DONE
  /\ last.task.status = DONE
  /\ last.task.updatedAt > last.arg.read.updatedAt

\* no connect() call has succeeded and the process is not in development mode
PersistentFailure == conn.env # "development" /\ conn.listeners = 0

\* C23: the retry counter stays within 0 .. maxRetryAttempts; and while every
\* connect() fails, outside development mode, the connect() calls made and
\* the retries still scheduled are at most 1 + maxRetryAttempts together (at
\* most 5 retries, 6 calls), and once the cap is reached no timer is pending
\* and no connect() is running.
C23_RetriesBounded ==
  /\ conn.retryAttempts \in 0 .. maxRetryAttempts
  /\ PersistentFailure =>
       /\ conn.calls + conn.timers <= maxRetryAttempts + 1
       /\ conn.calls - 1 + conn.timers = conn.retryAttempts
       /\ conn.gaveUp => (conn.timers = 0 /\ conn.connecting = 0
                        /\ conn.calls = maxRetryAttempts + 1)

\* in production every connect() has failed: the sixth call was the last
C23_Witness ==
  /\ conn.env = "production"
  /\ conn.listeners = 0
  /\ conn.gaveUp
  /\ conn.retryAttempts = maxRetryAttempts
  /\ conn.calls = maxRetryAttempts + 1
  /\ conn.timers = 0

\* the delays of the first to the fifth retry, in milliseconds
RetryDelays == <<5000, 10000, 20000, 40000, 80000>>

\* C24: when a retry is scheduled, it is the k-th since the counter was last
\* reset, k the counter after the increment, and its delay is
\* baseRetryInterval * 2^(k-1): 5000, 10000, 20000, 40000, 80000 ms for
\* k = 1..5, twice the delay of the retry before it.
C24_DelayDoubles ==
  [][conn'.timers > conn.timers
       => /\ conn'.retryAttempts \in 1 .. maxRetryAttempts
          /\ conn'.lastDelay = RetryDelays[conn'.retryAttempts]
          /\ conn'.lastDelay = baseRetryInterval * 2 ^ (conn'.retryAttempts - 1)
          /\ (conn'.retryAttempts = conn.retryAttempts + 1 /\ conn.retryAttempts > 0
                /\ conn.lastDelay = RetryDelays[conn.retryAttempts])
               => conn'.lastDelay = 2 * conn.lastDelay]_vars

\* the fifth retry in a row is scheduled, 80 seconds ahead
C24_Witness ==
  /\ conn.retryAttempts = 5
  /\ conn.lastDelay = 80000
  /\ conn.timers = 1
  /\ conn.listeners = 0

\* C25: a connect() call that succeeds leaves the retry counter at 0, after
\* however many failed attempts.
C25_SuccessResetsCounter ==
  [][conn'.listeners > conn.listeners => conn'.retryAttempts = 0]_vars

\* C26: no step schedules more than one retry timer, at most one reconnect
\* (a pending timer or a running connect()) exists at any time, and the
\* listeners of one connect() call are the only ones registered.
C26_OneReconnectPending ==
  [][/\ conn'.timers <= conn.timers + 1
     /\ conn'.timers + conn'.connecting <= 1
     /\ conn'.listeners <= 1]_vars

\* C27: a request to a /task route is answered once: no second status or
\* body is written to its response, and a request that has been handled has
\* had one written.
C27_OneResponse ==
  (req.stage # "none" /\ req.route.prefix = "task") =>
    /\ req.writes <= 1
    /\ req.stage = "done" => req.writes = 1


\* C28: a failed login has the same error ('Authentication failed') and the
\* same response (401, 'Authentication failed') whether the email is unknown
\* or the password is wrong, and a token is returned only when the email is
\* registered and the password matches the stored hash
Registered(email, password) ==
  \E u \in DOMAIN users : users[u].email = email /\ compare(password, users[u].passwordHash)

FailedLoginResponse ==
  [status |-> 401, message |-> "Authentication failed", token |-> NoToken, error |-> "{}"]

C28_LoginNonDisclosure ==
  last.op = "login" =>
    /\ (last.token # NoToken) <=> Registered(last.arg.email, last.arg.password)
    /\ last.token # NoToken => last.err = "" /\ last.response.status = 200
    /\ last.token = NoToken =>
         /\ last.cause \in {"User not found", "Invalid password"}
         /\ last.err = "Authentication failed"
         /\ last.response = FailedLoginResponse

C28_Witness ==
  /\ last.op = "login"
  /\ last.cause = "Invalid password"
  /\ last.arg.email = "e1"
  /\ last.err = "Authentication failed"
  /\ last.response.status = 401

\* C29: changePassword with an unknown user id or a wrong current password
\* throws and leaves the stored hashes unchanged; with the correct current
\* password it stores the hash of the new password, after which login succeeds
\* with the new password and, when the old password differs from the new one,
\* fails with the old one
ChangeFails ==
  /\ last'.err = (IF last'.arg.userId \notin DOMAIN users THEN "User not found"
                  ELSE "Current password is incorrect")
  /\ users' = users

ChangeStores ==
  LET id == last'.arg.userId
  IN /\ last'.err = ""
     /\ users' = [users EXCEPT ![id].passwordHash = Hash(last'.arg.newPassword, last'.arg.salt)]
     /\ login(users', users[id].email, last'.arg.newPassword).token # NoToken

OldPasswordRejected ==
  login(users', users[last'.arg.userId].email, last'.arg.currentPassword).err
    = "Authentication failed"

CurrentMatches ==
  /\ last'.arg.userId \in DOMAIN users
  /\ compare(last'.arg.currentPassword, users[last'.arg.userId].passwordHash)

C29_ChangePassword ==
  [][last' # last /\ last'.op = "changePassword" =>
       IF CurrentMatches
       THEN /\ ChangeStores
            /\ last'.arg.currentPassword # last'.arg.newPassword => OldPasswordRejected
       ELSE ChangeFails]_vars

C29_Original ==
  [][last' # last /\ last'.op = "changePassword" =>
       IF CurrentMatches THEN ChangeStores /\ OldPasswordRejected ELSE ChangeFails]_vars

C29_Witness ==
  /\ last.op = "changePassword"
  /\ last.err = ""
  /\ last.arg.userId = "u1"
  /\ last.arg.currentPassword = "p1"
  /\ last.arg.newPassword = "p3"
  /\ compare("p3", users["u1"].passwordHash)
  /\ login(users, "e1", "p1").err = "Authentication failed"


\* C30: authenticate calls next() at most once per request and only after a
\* token was taken from a 'Bearer <token>' header, verified, and the existing
\* user attached to req.user; on every other path it sends an error response
\* and never calls next(), so a guarded handler always sees req.user set
Guarded == req.stage # "none" /\ req.route.prefix = "task"

C30_NextOnlyWithUser ==
  Guarded =>
    /\ req.nexts <= 1
    /\ req.nexts = 1 =>
         /\ extractTokenFromHeader(req.header) # ""
         /\ verifyToken(extractTokenFromHeader(req.header)).err = ""
         /\ req.lookup = "found"
         /\ req.user
    /\ (req.stage # "auth" /\ req.nexts = 0) =>
         /\ req.stage = "done"
         /\ req.status \in {401, 500}
         /\ req.writes = 1
         /\ ~req.user
    /\ req.reached => req.nexts = 1 /\ req.user

C30_Witness ==
  /\ Guarded
  /\ req.route.handler = "getUserTasks"
  /\ req.reached
  /\ req.nexts = 1
  /\ req.user
  /\ req.status = 200

====
